---- MODULE Spec2Model ----
(***************************************************************************)
(* Model of scripts/replace-project-name.py: the template rewriter (tree   *)
(* walk with per-extension literal substitution), its three artifact       *)
(* generators, and the execution of the setup script it generates.         *)
(* Text is modelled as TLA+ strings (sequences of characters).             *)
(***************************************************************************)
EXTENDS Integers, Sequences, FiniteSets, TLC

VARIABLES fs, pc, run, pre, dirs_todo, root, files_todo, visited, passed,
          before, written, reported, failed, updated_count, faults,
          prev_ok, cfg_reported, sh

vars == <<fs, pc, run, pre, dirs_todo, root, files_todo, visited, passed,
          before, written, reported, failed, updated_count, faults,
          prev_ok, cfg_reported, sh>>

(* ---------------------------- bounds ----------------------------------- *)
MaxRuns == 2
MaxFaults == 1
MaxFrags == 1
MaxNameFrags == 2

(* ------------------------- text primitives ----------------------------- *)
Min(S) == CHOOSE x \in S : \A y \in S : x <= y

Max(S) == CHOOSE x \in S : \A y \in S : x >= y

\* the i-th character of s, empty beyond its end
Char(s, i) == IF i >= 1 /\ i <= Len(s) THEN SubSeq(s, i, i) ELSE ""

\* indices at which old occurs in s
Hits(s, old) ==
    {i \in 1..(Len(s) - Len(old) + 1) : SubSeq(s, i, i + Len(old) - 1) = old}

\* Python "old in s"
Contains(s, old) == Hits(s, old) # {}

RECURSIVE ReplaceFrom(_, _, _, _, _)
ReplaceFrom(s, old, new, hits, i) ==
    LET later == {h \in hits : h >= i} IN
    IF later = {} THEN SubSeq(s, i, Len(s))
    ELSE LET h == Min(later) IN
         SubSeq(s, i, h - 1) \o new \o ReplaceFrom(s, old, new, hits, h + Len(old))

\* Python str.replace(old, new): all non-overlapping occurrences, left to right
Replace(s, old, new) ==
    LET hits == Hits(s, old) IN
    IF hits = {} THEN s ELSE ReplaceFrom(s, old, new, hits, 1)

RECURSIVE ApplyFrom(_, _, _)
ApplyFrom(s, map, k) ==
    IF k > Len(map) THEN s
    ELSE ApplyFrom(Replace(s, map[k][1], map[k][2]), map, k + 1)

\* the loop "for old, new in replacements.items(): content = content.replace(old, new)"
ApplyMap(s, map) == ApplyFrom(s, map, 1)

RECURSIVE PyUnescapeFrom(_, _)
PyUnescapeFrom(s, i) ==
    LET bs == {j \in i..Len(s) : Char(s, j) = "\\"} IN
    IF bs = {} THEN SubSeq(s, i, Len(s))
    ELSE LET j == Min(bs)
             c == Char(s, j + 1) IN
         IF c \in {"\\", "\""}
         THEN SubSeq(s, i, j - 1) \o c \o PyUnescapeFrom(s, j + 2)
         ELSE SubSeq(s, i, j) \o PyUnescapeFrom(s, j + 1)

\* value of a (non-raw) Python string literal whose source text is s
PyUnescape(s) == PyUnescapeFrom(s, 1)

(* ----------------- the fixed texts of the generators ------------------- *)
env_template_src ==
    "# Project Configuration\n"
 \o "PROJECT_NAME=your-project-name\n"
 \o "APP_BASE_PATH=/your-project-name\n"
 \o "\n"
 \o "# Database\n"
 \o "DATABASE_URL=\n"
 \o "\n"
 \o "# AWS S3 Configuration (if using S3 storage)\n"
 \o "AWS_REGION=\n"
 \o "AWS_ACCESS_KEY_ID=\n"
 \o "AWS_SECRET_ACCESS_KEY=\n"
 \o "S3_BUCKET_NAME=\n"
 \o "S3_FOLDER_PREFIX=${PROJECT_NAME}/\n"
 \o "\n"
 \o "# Authentication\n"
 \o "NEXTAUTH_URL=https://your-domain.com/${PROJECT_NAME}\n"
 \o "NEXTAUTH_SECRET=\n"
 \o "\n"
 \o "# Azure AD (if using Azure authentication)\n"
 \o "AZURE_AD_CLIENT_ID=\n"
 \o "AZURE_AD_CLIENT_SECRET=\n"
 \o "AZURE_AD_TENANT_ID=\n"
 \o "\n"
 \o "# Google OAuth (if using Google authentication)\n"
 \o "GOOGLE_CLIENT_ID=\n"
 \o "GOOGLE_CLIENT_SECRET=\n"
 \o "\n"
 \o "# Storage Configuration\n"
 \o "STORAGE_PROVIDER=local\n"
 \o "LOCAL_UPLOAD_DIR=./uploads\n"
 \o "\n"
 \o "# Other Configuration\n"
 \o "NODE_ENV=production\n"
 \o "PORT=3000\n"

\* TLA+ strings cannot hold a grave accent: the template-literal delimiters of
\* lines 110 and 122 are written as apostrophes
config_content_src ==
    "export const config = {\n"
 \o "  auth: {\n"
 \o "    providers: {\n"
 \o "      google: {\n"
 \o "        clientId: process.env.GOOGLE_CLIENT_ID || '',\n"
 \o "        clientSecret: process.env.GOOGLE_CLIENT_SECRET || '',\n"
 \o "      },\n"
 \o "      azure: {\n"
 \o "        clientId: process.env.AZURE_AD_CLIENT_ID || '',\n"
 \o "        clientSecret: process.env.AZURE_AD_CLIENT_SECRET || '',\n"
 \o "        tenantId: process.env.AZURE_AD_TENANT_ID || '',\n"
 \o "      }\n"
 \o "    }\n"
 \o "  },\n"
 \o "  app: {\n"
 \o "    name: process.env.PROJECT_NAME || 'vvg-app',\n"
 \o "    basePath: process.env.APP_BASE_PATH || '/${process.env.PROJECT_NAME || 'vvg-app'}',\n"
 \o "  },\n"
 \o "  storage: {\n"
 \o "    provider: process.env.STORAGE_PROVIDER as 'local' | 's3' || 'local',\n"
 \o "    local: {\n"
 \o "      uploadDir: process.env.LOCAL_UPLOAD_DIR || './uploads',\n"
 \o "    },\n"
 \o "    s3: {\n"
 \o "      bucket: process.env.S3_BUCKET_NAME || '',\n"
 \o "      region: process.env.AWS_REGION || 'us-east-1',\n"
 \o "      accessKeyId: process.env.AWS_ACCESS_KEY_ID || '',\n"
 \o "      secretAccessKey: process.env.AWS_SECRET_ACCESS_KEY || '',\n"
 \o "      folderPrefix: process.env.S3_FOLDER_PREFIX || '${process.env.PROJECT_NAME || 'vvg-app'}/',\n"
 \o "    }\n"
 \o "  },\n"
 \o "  database: {\n"
 \o "    url: process.env.DATABASE_URL || '',\n"
 \o "  }\n"
 \o "};\n"

setup_head_src ==
    "#!/bin/bash\n"
 \o "\n"
 \o "# Setup script for new projects using this template\n"
 \o "\n"
 \o "echo \"VVG Template Setup\"\n"
 \o "echo \"==================\"\n"
 \o "\n"

setup_read_src ==
    "# Get project name from user\n"
 \o "read -p \"Enter your project name (lowercase, no spaces): \" PROJECT_NAME\n"
 \o "\n"

setup_validate_src ==
    "# Validate project name\n"
 \o "if [[ ! \"$PROJECT_NAME\" =~ ^[a-z0-9-]+$ ]]; then\n"
 \o "    echo \"Error: Project name must be lowercase letters, numbers, and hyphens only\"\n"
 \o "    exit 1\n"
 \o "fi\n"
 \o "\n"
 \o "echo \"Setting up project: $PROJECT_NAME\"\n"
 \o "\n"

setup_cp_src ==
    "# Copy .env.template to .env\n"
 \o "cp .env.template .env\n"
 \o "\n"

setup_env_src ==
    "# Update .env with project name\n"
 \o "if [[ \"$OSTYPE\" == \"darwin\"* ]]; then\n"
 \o "    # macOS\n"
 \o "    sed -i '' \"s|PROJECT_NAME=your-project-name|PROJECT_NAME=$PROJECT_NAME|g\" .env\n"
 \o "    sed -i '' \"s|APP_BASE_PATH=/your-project-name|APP_BASE_PATH=/$PROJECT_NAME|g\" .env\n"
 \o "else\n"
 \o "    # Linux\n"
 \o "    sed -i \"s|PROJECT_NAME=your-project-name|PROJECT_NAME=$PROJECT_NAME|g\" .env\n"
 \o "    sed -i \"s|APP_BASE_PATH=/your-project-name|APP_BASE_PATH=/$PROJECT_NAME|g\" .env\n"
 \o "fi\n"
 \o "\n"

setup_pkg_src ==
    "# Update package.json name\n"
 \o "if [[ \"$OSTYPE\" == \"darwin\"* ]]; then\n"
 \o "    sed -i '' \"s|\\\\\"name\\\\\": \\\\\"[^\\\"]*\\\\\"|\\\"name\\\": \\\\\"$PROJECT_NAME\\\\\"|g\" package.json\n"
 \o "else\n"
 \o "    sed -i \"s|\\\\\"name\\\\\": \\\\\"[^\\\"]*\\\\\"|\\\"name\\\": \\\\\"$PROJECT_NAME\\\\\"|g\" package.json\n"
 \o "fi\n"
 \o "\n"

setup_tail_src ==
    "echo \"\"\n"
 \o "echo \"Setup complete! Next steps:\"\n"
 \o "echo \"1. Update the remaining values in .env\"\n"
 \o "echo \"2. Run 'npm install' to install dependencies\"\n"
 \o "echo \"3. Run 'npm run dev' to start development\"\n"
 \o "echo \"\"\n"
 \o "echo \"For production deployment:\"\n"
 \o "echo \"- Update nginx configs with your domain\"\n"
 \o "echo \"- Update deployment configs with your server details\"\n"
 \o "echo \"- See DEPLOYMENT.md for full instructions\"\n"

\* the text create_env_template() writes (value of the literal)
env_template == PyUnescape(env_template_src)

\* the text update_config_ts() writes
config_content == PyUnescape(config_content_src)

\* the text create_setup_script() writes
setup_content ==
    PyUnescape(setup_head_src \o setup_read_src \o setup_validate_src
               \o setup_cp_src \o setup_env_src \o setup_pkg_src \o setup_tail_src)

(* ------------------------ path handling -------------------------------- *)
SKIP_PATTERNS ==
    <<"node_modules", ".git", ".next", "dist", "build", "*.original",
      "replace-project-name.py">>

\* the final component of a path string
BaseName(path_str) ==
    LET sl == {i \in 1..Len(path_str) : Char(path_str, i) = "/"} IN
    IF sl = {} THEN path_str ELSE SubSeq(path_str, Max(sl) + 1, Len(path_str))

should_skip_NameOnly(path_str) ==
    \E k \in 1..Len(SKIP_PATTERNS) : Contains(BaseName(path_str), SKIP_PATTERNS[k])

\* should_skip(path): some pattern is a substring of str(path)
should_skip(path_str) ==
    \E k \in 1..Len(SKIP_PATTERNS) : Contains(path_str, SKIP_PATTERNS[k])

\* the directory names main() removes from dirs[:] before descending
PRUNED_DIRS == {"node_modules", ".git", ".next", "dist", "build"}

\* os.path.join(root, name), as os.walk builds the roots it yields
JoinRoot(r, name) == r \o "/" \o name

\* str(Path(root) / file): pathlib drops the leading "." component
PathOf(r, file) ==
    IF r = "." THEN file
    ELSE SubSeq(r, 3, Len(r)) \o "/" \o file

\* Path.suffix of a final component: from its last dot, none for a leading dot
Suffix(name) ==
    LET dots == {i \in 1..Len(name) : Char(name, i) = "."} IN
    IF dots = {} THEN ""
    ELSE LET i == Max(dots) IN
         IF i = 1 \/ i = Len(name) THEN "" ELSE SubSeq(name, i, Len(name))

UPPER == "ABCDEFGHIJKLMNOPQRSTUVWXYZ"

LOWER == "abcdefghijklmnopqrstuvwxyz"

LowerChar(c) ==
    LET ks == {k \in 1..26 : Char(UPPER, k) = c} IN
    IF ks = {} THEN c ELSE Char(LOWER, Min(ks))

RECURSIVE Lower(_)
\* str.lower()
Lower(s) == IF s = "" THEN "" ELSE LowerChar(Char(s, 1)) \o Lower(Tail(s))

(* ---------------------- substitution maps ------------------------------ *)
\* main(): replacements, in dict insertion order
replacements ==
    << <<"nda-analyzer", "${PROJECT_NAME}">>,
       <<"/nda-analyzer", "/${PROJECT_NAME}">>,
       <<"nda-analyzer/", "${PROJECT_NAME}/">>,
       <<"'nda-analyzer'", "'${PROJECT_NAME}'">>,
       <<"\"nda-analyzer\"", "\"${PROJECT_NAME}\"">>,
       <<"NDA Analyzer", "${PROJECT_DISPLAY_NAME}">>,
       <<"nda_analyzer", "${PROJECT_NAME_UNDERSCORE}">> >>

json_replacements == << <<"\"nda-analyzer\"", "\"vvg-template\"">> >>

md_replacements_Cascade ==
    << <<"nda-analyzer", "{nda-analyzer-template}">>,
       <<"NDA Analyzer", "{PROJECT_DISPLAY_NAME}">> >>

md_replacements ==
    << <<"nda-analyzer", "{PROJECT_NAME}">>,
       <<"NDA Analyzer", "{PROJECT_DISPLAY_NAME}">> >>

\* main(): file_handlers
file_handlers ==
    [e \in {".ts", ".tsx", ".js", ".jsx", ".json", ".yml", ".yaml", ".sh",
            ".md", ".conf"} |->
        CASE e = ".json" -> json_replacements
          [] e = ".md" -> md_replacements
          [] OTHER -> replacements]

\* the generated texts under the general map, computed once
Generated == [t \in {config_content, setup_content} |-> ApplyMap(t, replacements)]

\* the substitution loop of replace_in_file() (lines 37-39)
Substitute(text, map) ==
    IF map = replacements /\ text \in DOMAIN Generated THEN Generated[text]
    ELSE ApplyMap(text, map)

(* --------------------------- the tree ---------------------------------- *)
\* directories of the template root, named as os.walk('.') names them
SubDirs ==
    [d \in {".", "./lib", "./docs", "./src", "./src/build", "./node_modules",
            "./node_modules/pkg", "./distro"} |->
        CASE d = "." -> <<"lib", "docs", "src", "node_modules", "distro">>
          [] d = "./src" -> <<"build">>
          [] d = "./node_modules" -> <<"pkg">>
          [] OTHER -> <<>>]

Dirs == DOMAIN SubDirs

\* the file names that may exist in each directory
FileNames ==
    [d \in Dirs |->
        CASE d = "." -> {"package.json", ".env.template", "setup-project.sh"}
          [] d = "./docs" -> {"README.md", "notes.txt"}
          [] d = "./lib" -> {"config.ts", "config.ts.original"}
          [] d = "./src" -> {"App.TSX"}
          [] d = "./src/build" -> {"out.js"}
          [] d = "./node_modules/pkg" -> {"index.js"}
          [] d = "./distro" -> {"main.ts"}
          [] OTHER -> {}]

Paths == UNION {{PathOf(d, n) : n \in FileNames[d]} : d \in Dirs} \cup {".env"}

NoFile == [present |-> FALSE, data |-> ""]

File(text) == [present |-> TRUE, data |-> text]

ENV_TEMPLATE == ".env.template"

CONFIG_TS == "lib/config.ts"

\* config_path.with_suffix('.ts.original')
BACKUP == "lib/config" \o ".ts.original"

SETUP_SH == "setup-project.sh"

(* ------------------------ initial contents ----------------------------- *)
Fragments ==
    {"\"nda-analyzer\"", "NDA Analyzer", "nda_analyzer"}

RECURSIVE Concats(_)
Concats(n) ==
    IF n = 0 THEN {""}
    ELSE LET S == Concats(n - 1) IN S \cup {s \o f : s \in S, f \in Fragments}

Contents == Concats(MaxFrags)

\* files that already exist when the tool is first run
UserFiles ==
    {"package.json", "docs/README.md", "docs/notes.txt", "src/App.TSX",
     "src/build/out.js", "node_modules/pkg/index.js", "distro/main.ts"}

NoWalk ==
    /\ dirs_todo = <<>>
    /\ root = "."
    /\ files_todo = {}
    /\ visited = {}
    /\ passed = [p \in Paths |-> 0]
    /\ before = [p \in Paths |-> ""]
    /\ written = {}
    /\ reported = {}
    /\ failed = {}
    /\ updated_count = 0
    /\ cfg_reported = FALSE

ShIdle == [pc |-> "off", line |-> "", ostype |-> "", name |-> "", status |-> 0]

Init ==
    /\ \E c \in Contents, hasCfg, hasBk, others \in BOOLEAN :
         /\ ~others => (~hasCfg /\ ~hasBk)
         /\ fs = [p \in Paths |->
                 CASE p = "src/App.TSX" -> File(c)
                   [] p \in UserFiles -> IF others THEN File(c) ELSE NoFile
                   [] p = CONFIG_TS -> IF hasCfg THEN File(c) ELSE NoFile
                   [] p = BACKUP -> IF hasBk THEN File("// kept\n") ELSE NoFile
                   [] p = ENV_TEMPLATE -> IF hasBk THEN File("OLD=1\n") ELSE NoFile
                   [] p = SETUP_SH -> IF hasBk THEN File("echo old\n") ELSE NoFile
                   [] OTHER -> NoFile]
    /\ pc = "idle"
    /\ run = 0
    /\ pre = fs
    /\ NoWalk
    /\ faults = 0
    /\ prev_ok = FALSE
    /\ sh = ShIdle

(* --------------------------- main() ------------------------------------ *)
walkvars == <<dirs_todo, root, files_todo, visited, passed, before, written,
              reported, failed, updated_count>>

\* main() is entered (lines 199-205); the tree as found is remembered in pre
StartRun ==
    /\ pc \in {"idle", "done", "aborted"}
    /\ run < MaxRuns
    /\ run' = run + 1
    /\ pre' = fs
    /\ prev_ok' = (pc = "done" /\ failed = {})
    /\ pc' = "env"
    /\ dirs_todo' = <<>>
    /\ root' = "."
    /\ files_todo' = {}
    /\ visited' = {}
    /\ passed' = [p \in Paths |-> 0]
    /\ before' = [p \in Paths |-> ""]
    /\ written' = {}
    /\ reported' = {}
    /\ failed' = {}
    /\ updated_count' = 0
    /\ cfg_reported' = FALSE
    /\ UNCHANGED <<fs, faults, sh>>

\* create_env_template(): open('.env.template', 'w') and write, unguarded
CreateEnvTemplate ==
    /\ pc = "env"
    /\ \/ /\ fs' = [fs EXCEPT ![ENV_TEMPLATE] = File(env_template)]
          /\ pc' = "config"
          /\ UNCHANGED faults
       \/ /\ faults < MaxFaults
          /\ faults' = faults + 1
          /\ pc' = "aborted"
          /\ UNCHANGED fs
    /\ UNCHANGED <<run, pre, walkvars, prev_ok, cfg_reported, sh>>

ConfigRewritten_NoBackupCheck(f) ==
    IF f[CONFIG_TS].present
    THEN [f EXCEPT ![BACKUP] = f[CONFIG_TS], ![CONFIG_TS] = File(config_content)]
    ELSE f

\* the file-system effect of update_config_ts() when nothing fails
ConfigRewritten(f) ==
    IF f[CONFIG_TS].present /\ ~f[BACKUP].present
    THEN [f EXCEPT ![BACKUP] = f[CONFIG_TS], ![CONFIG_TS] = File(config_content)]
    ELSE f

\* update_config_ts() as called from main(); a failing rename or write aborts
UpdateConfigTs ==
    /\ pc = "config"
    /\ \/ /\ fs' = ConfigRewritten(fs)
          /\ cfg_reported' = (fs[CONFIG_TS].present /\ ~fs[BACKUP].present)
          /\ pc' = "walk"
          /\ dirs_todo' = <<".">>
          /\ UNCHANGED faults
       \/ /\ faults < MaxFaults
          /\ fs[CONFIG_TS].present /\ ~fs[BACKUP].present
          /\ faults' = faults + 1
          /\ pc' = "aborted"
          /\ \/ UNCHANGED fs
             \/ fs' = [fs EXCEPT ![BACKUP] = fs[CONFIG_TS], ![CONFIG_TS] = NoFile]
          /\ UNCHANGED <<cfg_reported, dirs_todo>>
    /\ UNCHANGED <<run, pre, root, files_todo, visited, passed, before, written,
                   reported, failed, updated_count, prev_ok, sh>>

\* update_config_ts() run on its own, outside main()
ConfigGeneratorAlone ==
    /\ pc \in {"idle", "done", "aborted"}
    /\ fs' = ConfigRewritten(fs)
    /\ UNCHANGED <<pc, run, pre, walkvars, faults, prev_ok, cfg_reported, sh>>

RECURSIVE KeptDirs(_, _)
\* dirs[:] = [d for d in dirs if d not in [...]], joined to the root
KeptDirs(r, names) ==
    IF names = <<>> THEN <<>>
    ELSE IF Head(names) \in PRUNED_DIRS THEN KeptDirs(r, Tail(names))
    ELSE <<JoinRoot(r, Head(names))>> \o KeptDirs(r, Tail(names))

\* one iteration of "for root, dirs, files in os.walk('.')": list the directory
WalkDir ==
    /\ pc = "walk"
    /\ files_todo = {}
    /\ dirs_todo # <<>>
    /\ LET r == Head(dirs_todo) IN
         /\ root' = r
         /\ visited' = visited \cup {r}
         /\ files_todo' = {n \in FileNames[r] : fs[PathOf(r, n)].present}
         /\ dirs_todo' = KeptDirs(r, SubDirs[r]) \o Tail(dirs_todo)
    /\ UNCHANGED <<fs, pc, run, pre, passed, before, written, reported, failed,
                   updated_count, faults, prev_ok, cfg_reported, sh>>

\* "if ext in file_handlers: ... file_handlers[ext]"
Lookup_Default(ext) ==
    [found |-> TRUE,
     map |-> IF ext \in DOMAIN file_handlers THEN file_handlers[ext] ELSE replacements]

Lookup(ext) ==
    [found |-> ext \in DOMAIN file_handlers,
     map |-> IF ext \in DOMAIN file_handlers THEN file_handlers[ext] ELSE <<>>]

AfterError_Propagates == "aborted"

\* where main() continues after replace_in_file() caught an exception
AfterError == "walk"

Changed_Always(content, original_content) == TRUE

\* "if content != original_content"
Changed(content, original_content) == content # original_content

Counted_Every(count, result) == count + 1

\* "if replace_in_file(...): updated_count += 1"
Counted(count, result) == IF result THEN count + 1 ELSE count

\* the file does not go through replace_in_file()
SkipFile ==
    UNCHANGED <<fs, pc, passed, before, written, reported, failed,
                updated_count, faults>>

\* replace_in_file(file_path, replacements) and the count of its result
ReplaceInFile(p, map) ==
    LET original_content == fs[p].data
        content == Substitute(original_content, map) IN
    /\ passed' = [passed EXCEPT ![p] = @ + 1]
    /\ before' = [before EXCEPT ![p] = original_content]
    /\ \/ \* read and, when changed, written
          /\ IF Changed(content, original_content)
             THEN /\ fs' = [fs EXCEPT ![p] = File(content)]
                  /\ written' = written \cup {p}
                  /\ reported' = reported \cup {p}
                  /\ updated_count' = Counted(updated_count, TRUE)
             ELSE /\ updated_count' = Counted(updated_count, FALSE)
                  /\ UNCHANGED <<fs, written, reported>>
          /\ UNCHANGED <<pc, failed, faults>>
       \/ \* open() or read() raises (unreadable, not UTF-8)
          /\ faults < MaxFaults
          /\ faults' = faults + 1
          /\ failed' = failed \cup {p}
          /\ pc' = AfterError
          /\ updated_count' = Counted(updated_count, FALSE)
          /\ UNCHANGED <<fs, written, reported>>
       \/ \* open(.., 'w') or write() raises; the file may be left truncated
          /\ faults < MaxFaults
          /\ Changed(content, original_content)
          /\ faults' = faults + 1
          /\ failed' = failed \cup {p}
          /\ pc' = AfterError
          /\ updated_count' = Counted(updated_count, FALSE)
          /\ \/ UNCHANGED fs
             \/ fs' = [fs EXCEPT ![p] = File("")]
          /\ UNCHANGED <<written, reported>>

\* one iteration of "for file in files" (lines 251-262)
WalkFile ==
    /\ pc = "walk"
    /\ \E file \in files_todo :
         LET file_path == PathOf(root, file)
             ext == Lower(Suffix(file)) IN
         /\ files_todo' = files_todo \ {file}
         /\ IF should_skip(file_path) THEN SkipFile
            ELSE IF Lookup(ext).found
                 THEN ReplaceInFile(file_path, Lookup(ext).map)
                 ELSE SkipFile
    /\ UNCHANGED <<run, pre, dirs_todo, root, visited, prev_ok, cfg_reported, sh>>

\* after the walk: create_setup_script() and the summary (lines 264-270)
Finish ==
    /\ pc = "walk"
    /\ files_todo = {}
    /\ dirs_todo = <<>>
    /\ \/ /\ fs' = [fs EXCEPT ![SETUP_SH] = File(setup_content)]
          /\ pc' = "done"
          /\ UNCHANGED faults
       \/ /\ faults < MaxFaults
          /\ faults' = faults + 1
          /\ pc' = "aborted"
          /\ UNCHANGED fs
    /\ UNCHANGED <<run, pre, walkvars, prev_ok, cfg_reported, sh>>

Next ==
    \/ StartRun
    \/ CreateEnvTemplate
    \/ UpdateConfigTs
    \/ ConfigGeneratorAlone
    \/ WalkDir
    \/ WalkFile
    \/ Finish

Spec == Init /\ [][Next]_vars

(* ------------------ the generated setup-project.sh --------------------- *)
ASCII ==
    " !\"#$%&'()*+,-./0123456789:;<=>?@ABCDEFGHIJKLMNOPQRSTUVWXYZ[\\]^_abcdefghijklmnopqrstuvwxyz{|}~"

Ord(c) == Min({k \in 1..Len(ASCII) : Char(ASCII, k) = c})

RECURSIVE ClassSet(_, _)
\* members of a bracket expression, ranges expanded
ClassSet(m, i) ==
    IF i > Len(m) THEN {}
    ELSE IF i + 2 <= Len(m) /\ Char(m, i + 1) = "-"
         THEN {Char(ASCII, k) : k \in Ord(Char(m, i))..Ord(Char(m, i + 2))}
              \cup ClassSet(m, i + 3)
         ELSE {Char(m, i)} \cup ClassSet(m, i + 1)

BadRE == [ok |-> FALSE, elems |-> <<>>]

RECURSIVE ParseElems(_, _, _)
\* a POSIX regular expression as a sequence of quantified character classes;
\* ere: "+" is a quantifier (bash =~), otherwise a literal (sed)
ParseElems(re, i, ere) ==
    IF i > Len(re) THEN [ok |-> TRUE, elems |-> <<>>]
    ELSE
      LET c == Char(re, i)
          neg == c = "[" /\ Char(re, i + 1) = "^"
          start == IF neg THEN i + 2 ELSE i + 1
          closes == {j \in (start + 1)..Len(re) : Char(re, j) = "]"}
          last == CASE c = "[" -> IF closes = {} THEN Len(re) ELSE Min(closes)
                    [] c = "\\" -> i + 1
                    [] OTHER -> i
          class == CASE c = "[" -> [any |-> FALSE, neg |-> neg,
                                    set |-> ClassSet(SubSeq(re, start, last - 1), 1)]
                     [] c = "." -> [any |-> TRUE, neg |-> FALSE, set |-> {}]
                     [] c = "\\" -> [any |-> FALSE, neg |-> FALSE, set |-> {Char(re, i + 1)}]
                     [] OTHER -> [any |-> FALSE, neg |-> FALSE, set |-> {c}]
          nxt == Char(re, last + 1)
          q == IF nxt = "*" THEN "*" ELSE IF ere /\ nxt = "+" THEN "+" ELSE "1"
          rest == ParseElems(re, IF q = "1" THEN last + 1 ELSE last + 2, ere) IN
      IF c = "[" /\ closes = {} THEN BadRE
      ELSE [ok |-> rest.ok, elems |-> <<[class |-> class, q |-> q]>> \o rest.elems]

ParseRE(re, ere) ==
    LET astart == Len(re) > 0 /\ Char(re, 1) = "^"
        aend == Len(re) > 0 /\ Char(re, Len(re)) = "$"
        body == SubSeq(re, IF astart THEN 2 ELSE 1, IF aend THEN Len(re) - 1 ELSE Len(re))
        p == ParseElems(body, 1, ere) IN
    [ok |-> p.ok, elems |-> p.elems, astart |-> astart, aend |-> aend]

Accepts(class, c) ==
    /\ c # "\n"
    /\ class.any \/ ((c \in class.set) # class.neg)

RECURSIVE RunLen(_, _, _)
\* how many characters of s from i on the class accepts
RunLen(class, s, i) ==
    IF i <= Len(s) /\ Accepts(class, Char(s, i)) THEN 1 + RunLen(class, s, i + 1) ELSE 0

RECURSIVE Ends(_, _, _, _)
\* the positions at which a match of elems[k..] that starts at i can end
Ends(elems, k, s, i) ==
    IF k > Len(elems) THEN {i}
    ELSE LET e == elems[k]
             n == RunLen(e.class, s, i)
             lo == IF e.q = "*" THEN 0 ELSE 1
             hi == IF e.q = "1" THEN 1 ELSE n IN
         IF n < lo THEN {}
         ELSE UNION {Ends(elems, k + 1, s, i + m) : m \in lo..hi}

\* [[ s =~ re ]]
RegexMatches(s, re) ==
    LET p == ParseRE(re, TRUE) IN
    /\ p.ok
    /\ \E i \in 1..(Len(s) + 1) :
         /\ p.astart => i = 1
         /\ \E j \in Ends(p.elems, 1, s, i) : p.aend => j = Len(s) + 1

RECURSIVE SubstFrom(_, _, _, _, _)
SubstFrom(s, elems, rep, starts, i) ==
    LET later == {h \in starts : h >= i} IN
    IF later = {} THEN SubSeq(s, i, Len(s))
    ELSE LET h == Min(later)
             j == Max(Ends(elems, 1, s, h)) IN
         SubSeq(s, i, h - 1) \o rep \o SubstFrom(s, elems, rep, starts, j)

\* sed "s<d>re<d>rep<d>g" applied to a text; an ill-formed script changes nothing
SedScript(script, s) ==
    LET d == Char(script, 2)
        ds == {i \in 3..Len(script) : Char(script, i) = d}
        d1 == Min(ds)
        d2 == Min(ds \ {d1})
        p == ParseRE(SubSeq(script, 3, d1 - 1), FALSE)
        rep == SubSeq(script, d1 + 1, d2 - 1)
        starts == {i \in 1..Len(s) : \E j \in Ends(p.elems, 1, s, i) : j > i} IN
    IF Len(script) < 4 \/ Char(script, 1) # "s" \/ Cardinality(ds) # 2 THEN s
    ELSE IF ~p.ok \/ p.astart \/ p.aend \/ SubSeq(script, d2 + 1, Len(script)) # "g" THEN s
    ELSE SubstFrom(s, p.elems, rep, starts, 1)

IdentChars == "ABCDEFGHIJKLMNOPQRSTUVWXYZ_abcdefghijklmnopqrstuvwxyz0123456789"

RECURSIVE IdentLen(_, _)
IdentLen(s, i) ==
    IF i <= Len(s) /\ Contains(IdentChars, Char(s, i)) THEN 1 + IdentLen(s, i + 1) ELSE 0

Flush(toks, cur, inword, q) ==
    IF inword THEN Append(toks, [k |-> "w", v |-> cur, q |-> q]) ELSE toks

Op(v) == [k |-> "op", v |-> v, q |-> FALSE]

LexState(mode, cur, inword, q, toks) ==
    [mode |-> mode, cur |-> cur, inword |-> inword, q |-> q, toks |-> toks]

\* the characters that end a run of ordinary characters in each quoting mode
Special(mode) ==
    CASE mode = "s" -> {"'"}
      [] mode = "d" -> {"\"", "\\", "$"}
      [] OTHER -> {"\\", "'", "\"", "$", " ", "\n", "|", ";", "#"}

RECURSIVE LexLine(_, _, _, _)
\* bash word splitting, quote removal and parameter expansion over one line;
\* mode: "u" unquoted, "d" inside double quotes, "s" inside single quotes
LexLine(s, i, st, env) ==
    IF i > Len(s) THEN st
    ELSE
      LET c == Char(s, i)
          sp == {j \in i..Len(s) : Char(s, j) \in Special(st.mode)}
          stop == IF sp = {} THEN Len(s) + 1 ELSE Min(sp)
          n == IdentLen(s, i + 1)
          id == SubSeq(s, i + 1, i + n)
          val == IF id \in DOMAIN env THEN env[id] ELSE ""
          flushed == Flush(st.toks, st.cur, st.inword, st.q) IN
      IF stop > i
      THEN LexLine(s, stop, LexState(st.mode, st.cur \o SubSeq(s, i, stop - 1), TRUE,
                                     st.q \/ st.mode # "u", st.toks), env)
      ELSE CASE st.mode = "s" ->
             LexLine(s, i + 1, LexState("u", st.cur, TRUE, TRUE, st.toks), env)
        [] st.mode = "d" ->
             IF c = "\"" THEN LexLine(s, i + 1, LexState("u", st.cur, TRUE, TRUE, st.toks), env)
             ELSE IF c = "\\" /\ Char(s, i + 1) \in {"$", "\"", "\\"}
                  THEN LexLine(s, i + 2, LexState("d", st.cur \o Char(s, i + 1), TRUE, TRUE, st.toks), env)
             ELSE IF c = "$" /\ n > 0
                  THEN LexLine(s, i + 1 + n, LexState("d", st.cur \o val, TRUE, TRUE, st.toks), env)
             ELSE LexLine(s, i + 1, LexState("d", st.cur \o c, TRUE, TRUE, st.toks), env)
        [] OTHER ->
             IF c = "\\"
             THEN LexLine(s, i + 2, LexState("u", st.cur \o Char(s, i + 1), TRUE, TRUE, st.toks), env)
             ELSE IF c = "'" THEN LexLine(s, i + 1, LexState("s", st.cur, TRUE, TRUE, st.toks), env)
             ELSE IF c = "\"" THEN LexLine(s, i + 1, LexState("d", st.cur, TRUE, TRUE, st.toks), env)
             ELSE IF c = "$" /\ n > 0
                  THEN LexLine(s, i + 1 + n, LexState("u", st.cur \o val, TRUE, st.q, st.toks), env)
             ELSE IF c = " "
                  THEN LexLine(s, i + 1, LexState("u", "", FALSE, FALSE, flushed), env)
             ELSE IF c \in {"\n", "|", ";"}
                  THEN LexLine(s, i + 1, LexState("u", "", FALSE, FALSE, Append(flushed, Op(c))), env)
             ELSE IF c = "#" /\ ~st.inword
                  THEN LexLine(s, Len(s), st, env)
             ELSE LexLine(s, i + 1, LexState("u", st.cur \o c, TRUE, st.q, st.toks), env)

RECURSIVE Lines(_, _)
\* the lines of a text, each with its newline
Lines(s, i) ==
    LET nl == {j \in i..Len(s) : Char(s, j) = "\n"} IN
    IF i > Len(s) THEN <<>>
    ELSE IF nl = {} THEN <<SubSeq(s, i, Len(s))>>
    ELSE <<SubSeq(s, i, Min(nl))>> \o Lines(s, Min(nl) + 1)

RECURSIVE LexLines(_, _, _)
LexLines(lines, k, env) ==
    IF k = 0 THEN LexState("u", "", FALSE, FALSE, <<>>)
    ELSE LexLine(lines[k], 1, LexLines(lines, k - 1, env), env)

\* the tokens of a script text; quoting carries over from line to line
Lex(text, env) ==
    LET lines == Lines(text, 1)
        st == LexLines(lines, Len(lines), env) IN
    Flush(st.toks, st.cur, st.inword, st.q)

RECURSIVE Commands(_, _, _)
\* the simple commands of a token sequence (split at newline, ";" and "|")
Commands(toks, i, cur) ==
    LET done == IF cur = <<>> THEN <<>> ELSE <<cur>> IN
    IF i > Len(toks) THEN done
    ELSE IF toks[i].k = "op" THEN done \o Commands(toks, i + 1, <<>>)
    ELSE Commands(toks, i + 1, Append(cur, toks[i]))

Reserved(cmd) == IF cmd[1].q THEN "" ELSE cmd[1].v

Words(cmd) == [k \in 1..Len(cmd) |-> cmd[k].v]

RECURSIVE Selected(_, _, _, _)
\* the argument vectors bash executes: the commands outside an "if", and those
\* of the branch its condition selects
Selected(cmds, i, region, cond) ==
    IF i > Len(cmds) THEN <<>>
    ELSE
      LET cmd == cmds[i]
          w == Reserved(cmd)
          region2 == CASE w = "if" -> "cond"
                       [] w = "then" /\ region = "cond" -> "then"
                       [] w = "else" /\ region = "then" -> "else"
                       [] w = "fi" /\ region \in {"then", "else"} -> "out"
                       [] OTHER -> region
          body == IF w \in {"then", "else"} /\ region2 # region
                  THEN SubSeq(cmd, 2, Len(cmd)) ELSE cmd
          runs == /\ body # <<>>
                  /\ ~(w = "fi" /\ region2 # region)
                  /\ \/ region2 = "out"
                     \/ region2 = "then" /\ cond
                     \/ region2 = "else" /\ ~cond IN
      (IF runs THEN <<Words(body)>> ELSE <<>>) \o Selected(cmds, i + 1, region2, cond)

\* [[ "$OSTYPE" == "darwin"* ]]
IsDarwin(ostype) == SubSeq(ostype, 1, 6) = "darwin"

\* sed -i: GNU sed takes the script next, BSD sed (darwin) a backup suffix first
SedInPlace(argv, f, bsd) ==
    LET at == IF bsd THEN 4 ELSE 3
        usable == Len(argv) > at /\ argv[2] = "-i" IN
    IF ~usable THEN f
    ELSE [p \in DOMAIN f |->
            IF f[p].present /\ \E k \in (at + 1)..Len(argv) : argv[k] = p
            THEN File(SedScript(argv[at], f[p].data))
            ELSE f[p]]

\* the effect of one simple command on the files
Exec(argv, f, bsd) ==
    CASE argv[1] = "sed" -> SedInPlace(argv, f, bsd)
      [] argv[1] = "cp" /\ Len(argv) = 3 ->
           IF argv[2] \in DOMAIN f /\ argv[3] \in DOMAIN f /\ f[argv[2]].present
           THEN [f EXCEPT ![argv[3]] = f[argv[2]]] ELSE f
      [] OTHER -> f

RECURSIVE ExecAll(_, _, _, _)
ExecAll(argvs, i, f, bsd) ==
    IF i > Len(argvs) THEN f ELSE ExecAll(argvs, i + 1, Exec(argvs[i], f, bsd), bsd)

\* the commands bash runs for a part of the script
Argvs(text, name, ostype) ==
    LET env == [v \in {"PROJECT_NAME", "OSTYPE"} |->
                  IF v = "OSTYPE" THEN ostype ELSE name] IN
    Selected(Commands(Lex(text, env), 1, <<>>),
             1, "out", IsDarwin(ostype))

\* bash running a part of the script text
RunPart(text, f, name, ostype) ==
    ExecAll(Argvs(text, name, ostype), 1, f, IsDarwin(ostype))

RECURSIVE Strip(_)
\* read without -r splits on IFS: leading and trailing blanks are dropped
Strip(line) ==
    IF line = "" THEN ""
    ELSE IF Char(line, 1) = " " THEN Strip(Tail(line))
    ELSE IF Char(line, Len(line)) = " " THEN Strip(SubSeq(line, 1, Len(line) - 1))
    ELSE line

NameRegex_Unanchored == "[a-z0-9-]+"

\* the pattern of "[[ ! "$PROJECT_NAME" =~ ^[a-z0-9-]+$ ]]"
NameRegex == "^[a-z0-9-]+$"

NameFrags == {"my-app", "2", "My Project!", " "}

RECURSIVE NameConcats(_)
NameConcats(n) ==
    IF n = 0 THEN {""}
    ELSE LET S == NameConcats(n - 1) IN S \cup {s \o f : s \in S, f \in NameFrags}

\* what the end user may type at the prompt
NameInputs == NameConcats(MaxNameFrags)

OSTYPES == {"linux-gnu", "darwin20"}

PackageJsons ==
    {"{\n  \"name\": \"vvg-template\",\n  \"version\": \"1.0.0\"\n}\n",
     "{\"name\": \"vvg-template\", \"author\": {\"name\": \"vvg\"}}\n"}

\* a converted template in which the end user starts ./setup-project.sh
InitSetup ==
    /\ \E pkg \in PackageJsons, hasEnv \in BOOLEAN :
         fs = [p \in Paths |->
                 CASE p = "package.json" -> File(pkg)
                   [] p = ENV_TEMPLATE -> File(env_template)
                   [] p = SETUP_SH -> File(setup_content)
                   [] p = ".env" -> IF hasEnv THEN File("PROJECT_NAME=old\n") ELSE NoFile
                   [] OTHER -> NoFile]
    /\ pc = "done"
    /\ run = 1
    /\ pre = fs
    /\ NoWalk
    /\ faults = 0
    /\ prev_ok = FALSE
    /\ \E line \in NameInputs, os \in OSTYPES :
         sh = [pc |-> "read", line |-> line, ostype |-> os, name |-> "", status |-> 0]

mainvars == <<pc, run, pre, dirs_todo, root, files_todo, visited, passed, before,
              written, reported, failed, updated_count, faults, prev_ok, cfg_reported>>

\* read -p "..." PROJECT_NAME
ShRead ==
    /\ sh.pc = "read"
    /\ sh' = [sh EXCEPT !.name = Strip(sh.line), !.pc = "validate"]
    /\ UNCHANGED <<fs, mainvars>>

\* the validation of lines 153-159
ShValidate ==
    /\ sh.pc = "validate"
    /\ IF ~RegexMatches(sh.name, NameRegex)
       THEN sh' = [sh EXCEPT !.pc = "exit", !.status = 1]
       ELSE sh' = [sh EXCEPT !.pc = "cp"]
    /\ UNCHANGED <<fs, mainvars>>

\* cp .env.template .env
ShCopy ==
    /\ sh.pc = "cp"
    /\ fs' = RunPart(PyUnescape(setup_cp_src), fs, sh.name, sh.ostype)
    /\ sh' = [sh EXCEPT !.pc = "env"]
    /\ UNCHANGED mainvars

\* the "Update .env with project name" block
ShUpdateEnv ==
    /\ sh.pc = "env"
    /\ fs' = RunPart(PyUnescape(setup_env_src), fs, sh.name, sh.ostype)
    /\ sh' = [sh EXCEPT !.pc = "pkg"]
    /\ UNCHANGED mainvars

\* the "Update package.json name" block, then the closing messages
ShUpdatePackage ==
    /\ sh.pc = "pkg"
    /\ fs' = RunPart(PyUnescape(setup_pkg_src), fs, sh.name, sh.ostype)
    /\ sh' = [sh EXCEPT !.pc = "exit", !.status = 0]
    /\ UNCHANGED mainvars

NextSetup ==
    \/ ShRead
    \/ ShValidate
    \/ ShCopy
    \/ ShUpdateEnv
    \/ ShUpdatePackage

SpecSetup == InitSetup /\ [][NextSetup]_vars

(* ============================ claims =================================== *)
ExtOf(p) == Lower(Suffix(BaseName(p)))

MapOf(p) == file_handlers[ExtOf(p)]

HasKey(text, map) == \E k \in 1..Len(map) : Contains(text, map[k][1])

\* C1: the backup lib/config.ts.original is write-once: a step never changes it
\* once it exists, and the step that creates it gives it the content
\* lib/config.ts had just before (inside main(): the content main() found).
C1_BackupWriteOnce ==
    [][/\ fs[BACKUP].present => fs'[BACKUP] = fs[BACKUP]
       /\ (~fs[BACKUP].present /\ fs'[BACKUP].present) =>
            /\ fs[CONFIG_TS].present
            /\ fs'[BACKUP].data = fs[CONFIG_TS].data
            /\ pc = "config" => fs'[BACKUP].data = pre[CONFIG_TS].data]_vars

\* a second run has ended and the backup made by the first still holds the original
C1_Witness ==
    /\ run = 2 /\ pc = "done"
    /\ fs[BACKUP].present /\ fs[BACKUP].data = "NDA Analyzer"
    /\ fs[CONFIG_TS].data = config_content

\* C2 (as stated): after a complete run every file whose extension is not in
\* the dispatch table has the content it had before the run.
C2_NonTableFilesUntouched ==
    pc = "done" =>
        \A p \in Paths :
            (pre[p].present /\ ExtOf(p) \notin DOMAIN file_handlers) => fs[p] = pre[p]

\* C2 (amended): after a complete run every file other than .env.template whose
\* extension is not in the dispatch table has the content it had before the run.
C2_NonTableFilesExceptEnvTemplate ==
    pc = "done" =>
        \A p \in Paths \ {ENV_TEMPLATE} :
            (pre[p].present /\ ExtOf(p) \notin DOMAIN file_handlers) => fs[p] = pre[p]

C2_Witness ==
    /\ pc = "done"
    /\ pre["docs/notes.txt"].present
    /\ HasKey(pre["docs/notes.txt"].data, replacements)
    /\ fs["docs/notes.txt"] = pre["docs/notes.txt"]
    /\ pre[ENV_TEMPLATE].present /\ fs[ENV_TEMPLATE] # pre[ENV_TEMPLATE]

\* C3 (as stated): after a complete run every file whose extension is in the
\* dispatch table and whose content holds no key of its map is unchanged and
\* was not reported as updated.
C3_KeyFreeFilesUntouched ==
    pc = "done" =>
        \A p \in Paths :
            (/\ pre[p].present
             /\ ExtOf(p) \in DOMAIN file_handlers
             /\ ~HasKey(pre[p].data, MapOf(p)))
            => /\ fs[p] = pre[p]
               /\ p \notin reported
               /\ ~(p = CONFIG_TS /\ cfg_reported)

\* C3 (amended): the same for every file other than the two generated
\* artifacts lib/config.ts and setup-project.sh.
C3_KeyFreeFilesExceptArtifacts ==
    pc = "done" =>
        \A p \in Paths \ {CONFIG_TS, SETUP_SH} :
            (/\ pre[p].present
             /\ ExtOf(p) \in DOMAIN file_handlers
             /\ ~HasKey(pre[p].data, MapOf(p)))
            => /\ fs[p] = pre[p]
               /\ p \notin reported

C3_Witness ==
    /\ pc = "done"
    /\ pre["docs/README.md"].data = "nda_analyzer"
    /\ passed["docs/README.md"] = 1
    /\ fs["docs/README.md"] = pre["docs/README.md"]
    /\ "docs/README.md" \notin reported

\* a directory path (as os.walk names it) with a component of the given name
HasComponent(d, name) == Contains(d \o "/", "/" \o name \o "/")

RECURSIVE Range(_)
Range(seq) == IF seq = <<>> THEN {} ELSE {Head(seq)} \cup Range(Tail(seq))

\* C4: no file whose path contains node_modules, .git, .next, dist or build is
\* ever passed to content substitution, and no directory of such a name is ever
\* entered or queued for descent.
C4_ExcludedNeverVisited ==
    /\ \A p \in Paths : passed[p] > 0 => \A n \in PRUNED_DIRS : ~Contains(p, n)
    /\ \A d \in visited \cup Range(dirs_todo) \cup {root} :
           \A n \in PRUNED_DIRS : ~HasComponent(d, n)

C4_Witness ==
    /\ pc = "done"
    /\ "./distro" \in visited /\ "./src" \in visited
    /\ HasKey(fs["distro/main.ts"].data, replacements)
    /\ HasKey(fs["src/build/out.js"].data, replacements)
    /\ HasKey(fs["node_modules/pkg/index.js"].data, replacements)
    /\ passed["src/App.TSX"] = 1

\* the files the walk has to hand to replace_in_file()
Eligible(p) ==
    /\ pre[p].present
    /\ ~should_skip(p)
    /\ ExtOf(p) \in DOMAIN file_handlers

WalkComplete ==
    /\ files_todo = {} /\ dirs_todo = <<>>
    /\ \A p \in Paths : passed[p] = IF Eligible(p) THEN 1 ELSE 0

\* C5: a read, decode or write failure on a file does not end the run: a run
\* in which a file failed ends only after every eligible file has been
\* processed exactly once; a failed file is neither reported nor counted; and
\* at the summary the walk is complete.
C5_FailuresNotFatal ==
    /\ (failed # {} /\ pc \in {"done", "aborted"}) => WalkComplete
    /\ pc = "done" => WalkComplete
    /\ failed \cap (reported \cup written) = {}
    /\ updated_count = Cardinality(reported)
    /\ \A p \in failed : passed[p] = 1

C5_Witness ==
    /\ pc = "done"
    /\ failed = {"package.json"}
    /\ passed["src/App.TSX"] = 1 /\ "src/App.TSX" \in reported
    /\ passed["docs/README.md"] = 1

AllowedChars == "abcdefghijklmnopqrstuvwxyz0123456789-"

\* lowercase letters, digits and hyphens only, and at least one of them
NameAllowed(n) ==
    /\ n # ""
    /\ \A i \in 1..Len(n) : Contains(AllowedChars, Char(n, i))

\* C7: with a project name that is not made of lowercase letters, digits and
\* hyphens only, the setup script touches no file and exits with status 1.
C7_InvalidNameRejected ==
    (sh.pc \notin {"off", "read"} /\ ~NameAllowed(sh.name)) =>
        /\ fs = pre
        /\ sh.pc \in {"validate", "exit"}
        /\ sh.pc = "exit" => sh.status = 1

C7_Witness ==
    /\ sh.pc = "exit" /\ sh.line = "My Project!" /\ sh.status = 1
    /\ ~fs[".env"].present
    /\ fs = pre

\* C8: with a valid project name N the setup script ends with .env a copy of
\* .env.template carrying PROJECT_NAME=N and APP_BASE_PATH=/N, and with the
\* name field of package.json rewritten to N.
C8_SetupConfiguresProject ==
    (sh.pc = "exit" /\ sh.status = 0) =>
        /\ fs[".env"].present
        /\ fs[".env"].data =
              Replace(Replace(fs[ENV_TEMPLATE].data,
                              "PROJECT_NAME=your-project-name", "PROJECT_NAME=" \o sh.name),
                      "APP_BASE_PATH=/your-project-name", "APP_BASE_PATH=/" \o sh.name)
        /\ Contains(fs["package.json"].data, "\"name\": \"" \o sh.name \o "\"")

\* no later key of the map contains an earlier one
SpecificFirst(map) ==
    \A i, j \in 1..Len(map) : i < j => ~Contains(map[j][1], map[i][1])

\* C9: every map applied to a file lists a key that contains another key of
\* the map before the key it contains.
C9_KeysMostSpecificFirst ==
    \A p \in Paths : passed[p] > 0 => SpecificFirst(MapOf(p))

====
